---- MODULE Spec2Model ----
(***************************************************************************)
(* Portfolio tracker: the multi-provider forex aggregator, the transaction *)
(* ledger (net holdings, average cost basis), the alert check and the      *)
(* dashboard's pricing loop, modelled from src/portfolio_tracker.py and    *)
(* src/dashboard.py.                                                       *)
(*                                                                         *)
(* Numbers: Python floats are modelled as exact rationals [num, den] kept  *)
(* in lowest terms (rates, weights, cost basis) and as integers            *)
(* (quantities, prices, thresholds); float rounding is not modelled.       *)
(***************************************************************************)
EXTENDS Integers, Sequences, FiniteSets, TLC

\* ------------------------------------------------------------------ bounds
\* Largest number a provider / price source quotes, and largest threshold.
MaxRate == 2
\* Longest ledger (rows of the transactions table).
MaxTx == 2
\* Most rows of the alerts table.
MaxAlerts == 2

\* --------------------------------------------------------------- rationals
RECURSIVE GCD(_, _)
GCD(a, b) == IF b = 0 THEN a ELSE GCD(b, a % b)

Abs(n) == IF n < 0 THEN -n ELSE n

\* n/d in lowest terms with a positive denominator (d # 0).
Rat(n, d) ==
    LET g == GCD(Abs(n), Abs(d))
        s == IF d < 0 THEN -1 ELSE 1
    IN  [num |-> s * (n \div g), den |-> s * (d \div g)]

RZero == [num |-> 0, den |-> 1]
RInt(n) == [num |-> n, den |-> 1]
RAdd(x, y) == Rat(x.num * y.den + y.num * x.den, x.den * y.den)
RMul(x, y) == Rat(x.num * y.num, x.den * y.den)
\* x / y for y # 0
RDiv(x, y) == Rat(x.num * y.den, x.den * y.num)
RIsZero(x) == x.num = 0
RPos(x) == x.num > 0

\* ------------------------------------------------- Python values (Optional)
\* What a fetch returns: None, a number, or a JSON value that is no number
\* (a string) passed through unvalidated.
PyNone == [kind |-> "none", val |-> RZero]
PyNum(r) == [kind |-> "num", val |-> r]
PyStr == [kind |-> "str", val |-> RZero]

\* Python truthiness of such a value: None and 0 are falsy; a non-empty
\* string and a nonzero number are truthy.
Truthy(v) == \/ v.kind = "str"
             \/ v.kind = "num" /\ ~RIsZero(v.val)

\* ------------------------------------------------------------ symbol table
\* The symbols main() upserts, with their ids.
SymbolIds == 1..3
SymbolName(sid) == CASE sid = 1 -> "AAPL" [] sid = 2 -> "bitcoin" [] OTHER -> "USD_EUR"
symbol_type(sid) == CASE sid = 1 -> "stock" [] sid = 2 -> "crypto" [] OTHER -> "forex"
SymbolNames == {SymbolName(sid) : sid \in SymbolIds}
\* session.query(Symbol).filter_by(name=...).first(): the id, or 0 for no row.
SymbolByName(name) ==
    IF name \in SymbolNames THEN CHOOSE sid \in SymbolIds : SymbolName(sid) = name ELSE 0

Currencies == {"USD", "EUR", "GBP"}

\* ------------------------------------------------------- provider config
Providers == <<"EXCHANGERATE_HOST", "EXCHANGERATE_API", "OPEN_EXCHANGE_RATES">>
\* PROVIDER_CONFIG[p]["weight"]: 1.0, 0.8, 0.9
PROVIDER_CONFIG(p) ==
    CASE p = "EXCHANGERATE_HOST" -> Rat(10, 10)
      [] p = "EXCHANGERATE_API" -> Rat(8, 10)
      [] OTHER -> Rat(9, 10)

\* JSON values a rates table can hold under a currency key.
JAbsent == [j |-> "absent", n |-> 0]
JNull == [j |-> "null", n |-> 0]
JString == [j |-> "string", n |-> 0]
JNumber(n) == [j |-> "number", n |-> n]
JValues == {JAbsent, JNull, JString} \cup {JNumber(n) : n \in 0..MaxRate}

\* What requests.get(...).json() can deliver for one provider call:
\*   transport_error  requests.get raises (connection refused, DNS, reset)
\*   not_json         r.json() raises
\*   no_rates         valid JSON without the "rates"/"conversion_rates" key
\*   ok               a rates table (currency -> JSON value); only the
\*                    entries of base and target, the two keys
\*                    fetch_forex_rate reads, are represented
Responses(base, target) ==
    {[status |-> s, rates |-> [c \in {base, target} |-> JAbsent]] :
        s \in {"transport_error", "not_json", "no_rates"}}
    \cup {[status |-> "ok", rates |-> t] : t \in [{base, target} -> JValues]}

\* The Python value of a JSON value that is present.
FromJson(v) ==
    CASE v.j = "number" -> PyNum(RInt(v.n))
      [] v.j = "string" -> PyStr
      [] OTHER -> PyNone

\* The OPEN_EXCHANGE_RATES branch for a base other than USD, on the table
\* rates quoted against USD:
\*   if base in rates and target in rates: return rates[target] / rates[base]
\* and None otherwise. The division raises TypeError unless both legs are
\* numbers and ZeroDivisionError on a zero base leg; the enclosing bare
\* except turns either into None.
\* (Variant without the membership test on the base leg: a missing base leg
\* is read as 1.)
CrossRate_TargetOnly(rates, base, target) ==
    IF rates[target].j = "number"
    THEN IF rates[base] = JAbsent THEN PyNum(RInt(rates[target].n))
         ELSE IF rates[base].j = "number" /\ rates[base].n # 0
              THEN PyNum(Rat(rates[target].n, rates[base].n))
              ELSE PyNone
    ELSE PyNone

CrossRate(rates, base, target) ==
    IF rates[base] # JAbsent /\ rates[target] # JAbsent
    THEN IF /\ rates[target].j = "number"
            /\ rates[base].j = "number"
            /\ rates[base].n # 0
         THEN PyNum(Rat(rates[target].n, rates[base].n))
         ELSE PyNone
    ELSE PyNone

\* fetch_forex_rate(provider_key, base, target) on response resp: every
\* exception inside the try block returns None.
fetch_forex_rate(provider_key, base, target, resp) ==
    IF resp.status # "ok" THEN PyNone
    ELSE LET rates == resp.rates IN
      CASE provider_key = "EXCHANGERATE_HOST" ->
             \* data["rates"][target]: KeyError when absent
             IF rates[target] = JAbsent THEN PyNone ELSE FromJson(rates[target])
        [] provider_key = "EXCHANGERATE_API" ->
             \* data["conversion_rates"].get(target)
             FromJson(rates[target])
        [] OTHER ->
             IF base = "USD" THEN FromJson(rates[target])
             ELSE CrossRate(rates, base, target)

\* ------------------------------------------------------------------- state
VARIABLES
    \* get_advanced_forex_rate: where the call stands, its arguments, the
    \* loop index into PROVIDER_CONFIG, whether the pending requests.get
    \* never returns, the two accumulators, every value fetch_forex_rate
    \* returned in this call, the returned value, and the response the
    \* OPEN_EXCHANGE_RATES branch for a base other than USD worked on in
    \* this call (NoLegs while that branch has not run)
    fxPc, fxBase, fxTarget, fxIdx, fxHung,
    total_weighted_rate, total_weight, fxRates, fxResult, fxLegs,
    \* the transactions table, in insertion order
    transactions,
    \* the alerts table; check_and_trigger_alerts: where the call stands,
    \* its arguments, the queried alerts still to evaluate, the messages
    \* handed to send_email_alert in this call, and the previous call
    alerts, alPc, alSymbol, alPrice, alQueue, notified, alPrev,
    \* dashboard.py: where the script stands, the selected user, the
    \* holdings items still to price, the locals sym_name and current_price
    \* of the last completed pass of the loop, and rows
    dashPc, dashUser, dashItems, dashCur, rows

fxVars == <<fxPc, fxBase, fxTarget, fxIdx, fxHung,
            total_weighted_rate, total_weight, fxRates, fxResult, fxLegs>>
ledgerVars == <<transactions>>
alertVars == <<alerts, alPc, alSymbol, alPrice, alQueue, notified, alPrev>>
dashVars == <<dashPc, dashUser, dashItems, dashCur, rows>>
vars == <<fxVars, ledgerVars, alertVars, dashVars>>

\* ------------------------------------------- 5. get_advanced_forex_rate
NumProviders == Len(Providers)

\* No response has reached the indirect branch in this call.
NoLegs == [status |-> "unread"]

\* The indirect branch runs for OPEN_EXCHANGE_RATES when base is not USD.
Indirect(provider_key, base) ==
    provider_key = "OPEN_EXCHANGE_RATES" /\ base # "USD"

\* One pass of the loop body after the fetch returned `rate`:
\*   if rate is not None: total_weighted_rate += rate * weight
\*                        total_weight += weight
\* rate * weight raises TypeError when rate is a string.
\* (Variant without the None test: None counts as a rate of 0.)
Accumulate_NoneAsZero(rate, weight, twr, tw) ==
    IF rate.kind = "str" THEN [raised |-> TRUE, twr |-> twr, tw |-> tw]
    ELSE [raised |-> FALSE,
          twr |-> RAdd(twr, RMul(rate.val, weight)),
          tw |-> RAdd(tw, weight)]

Accumulate(rate, weight, twr, tw) ==
    IF rate.kind = "none" THEN [raised |-> FALSE, twr |-> twr, tw |-> tw]
    ELSE IF rate.kind = "str" THEN [raised |-> TRUE, twr |-> twr, tw |-> tw]
    ELSE [raised |-> FALSE,
          twr |-> RAdd(twr, RMul(rate.val, weight)),
          tw |-> RAdd(tw, weight)]

\* if total_weight > 0: return total_weighted_rate / total_weight
\* return None
WeightedAverage(twr, tw) ==
    IF RPos(tw) THEN PyNum(RDiv(twr, tw)) ELSE PyNone

\* Entry of get_advanced_forex_rate(base, target).
EnterAggregate(base, target) ==
    /\ fxPc' = "loop"
    /\ fxBase' = base
    /\ fxTarget' = target
    /\ fxIdx' = 1
    /\ fxHung' = FALSE
    /\ total_weighted_rate' = RZero
    /\ total_weight' = RZero
    /\ fxRates' = <<>>
    /\ fxResult' = PyNone
    /\ fxLegs' = NoLegs

\* A direct call, as main() makes for ("USD", "EUR").
StartAggregate ==
    /\ fxPc \in {"idle", "done", "raised"}
    /\ dashPc \in {"idle", "done", "raised"}
    /\ \E base \in Currencies, target \in Currencies :
          EnterAggregate(base, target)
    /\ UNCHANGED <<ledgerVars, alertVars, dashVars>>

\* fetch_forex_rate issues requests.get(url) with no timeout argument: the
\* call returns when the provider answers or the connection fails, and
\* never returns when the provider accepts the connection and stays silent.
SendRequest ==
    /\ fxPc = "loop"
    /\ fxIdx <= NumProviders
    /\ fxPc' = "waiting"
    /\ fxHung' \in BOOLEAN
    /\ UNCHANGED <<fxBase, fxTarget, fxIdx, total_weighted_rate, total_weight,
                   fxRates, fxResult, fxLegs>>
    /\ UNCHANGED <<ledgerVars, alertVars, dashVars>>

\* requests.get returns or raises; fetch_forex_rate parses and returns; the
\* loop body folds the returned value.
ReceiveResponse ==
    /\ fxPc = "waiting"
    /\ ~fxHung
    /\ \E resp \in Responses(fxBase, fxTarget) :
         LET provider_key == Providers[fxIdx]
             rate == fetch_forex_rate(provider_key, fxBase, fxTarget, resp)
             acc == Accumulate(rate, PROVIDER_CONFIG(provider_key),
                               total_weighted_rate, total_weight)
         IN  /\ fxRates' = Append(fxRates, rate)
             /\ total_weighted_rate' = acc.twr
             /\ total_weight' = acc.tw
             /\ fxPc' = IF acc.raised THEN "raised" ELSE "loop"
             /\ fxIdx' = IF acc.raised THEN fxIdx ELSE fxIdx + 1
             /\ fxLegs' = IF Indirect(provider_key, fxBase) THEN resp ELSE fxLegs
    /\ UNCHANGED <<fxBase, fxTarget, fxHung, fxResult>>
    /\ UNCHANGED <<ledgerVars, alertVars, dashVars>>

\* After the loop: the return statement.
FinishAggregate ==
    /\ fxPc = "loop"
    /\ fxIdx > NumProviders
    /\ fxResult' = WeightedAverage(total_weighted_rate, total_weight)
    /\ fxPc' = "done"
    /\ UNCHANGED <<fxBase, fxTarget, fxIdx, fxHung, total_weighted_rate,
                   total_weight, fxRates, fxLegs>>
    /\ UNCHANGED <<ledgerVars, alertVars, dashVars>>

InitFx ==
    /\ fxPc = "idle"
    /\ fxBase = "USD"
    /\ fxTarget = "EUR"
    /\ fxIdx = 1
    /\ fxHung = FALSE
    /\ total_weighted_rate = RZero
    /\ total_weight = RZero
    /\ fxRates = <<>>
    /\ fxResult = PyNone
    /\ fxLegs = NoLegs

\* ----------------------------------------------------- 3. the ledger
UserIds == {1, 2}
\* The quantities (sells, zero, buys) and unit prices a row can hold.
TxQuantities == {-2, -1, 0, 1, 2}
TxPrices == {1, 2}
\* A row of the transactions table (quantity > 0 buy, < 0 sell).
Transaction == [user_id : UserIds, symbol_id : SymbolIds,
                quantity : TxQuantities, price : TxPrices]

\* session.query(Transaction).filter(user_id == .., symbol_id == ..).all()
RECURSIVE QueryTransactions(_, _, _)
QueryTransactions(table, user_id, symbol_id) ==
    IF table = <<>> THEN <<>>
    ELSE LET t == Head(table)
             rest == QueryTransactions(Tail(table), user_id, symbol_id)
         IN  IF t.user_id = user_id /\ t.symbol_id = symbol_id
             THEN <<t>> \o rest ELSE rest

\* The test `if t.quantity > 0:  # buy` of the cost-basis loop.
\* (Variant that lets sells through.)
IsBuy_AnySign(t) == t.quantity # 0

IsBuy(t) == t.quantity > 0

\* The loop `for t in txs:` carrying total_cost and total_quantity.
RECURSIVE CostLoop(_, _, _)
CostLoop(txs, total_cost, total_quantity) ==
    IF txs = <<>> THEN [total_cost |-> total_cost, total_quantity |-> total_quantity]
    ELSE LET t == Head(txs) IN
         IF IsBuy(t)
         THEN CostLoop(Tail(txs), total_cost + t.quantity * t.price,
                       total_quantity + t.quantity)
         ELSE CostLoop(Tail(txs), total_cost, total_quantity)

\* calculate_average_cost_basis(session, user_id, symbol_id)
calculate_average_cost_basis(table, user_id, symbol_id) ==
    LET acc == CostLoop(QueryTransactions(table, user_id, symbol_id), 0, 0)
    IN  IF acc.total_quantity > 0
        THEN Rat(acc.total_cost, acc.total_quantity)
        ELSE RZero

\* func.sum(Transaction.quantity) over the rows of one group.
\* (Variant that sums the buys only.)
RECURSIVE SqlSum_BuysOnly(_)
SqlSum_BuysOnly(txs) ==
    IF txs = <<>> THEN 0
    ELSE (IF Head(txs).quantity > 0 THEN Head(txs).quantity ELSE 0)
         + SqlSum_BuysOnly(Tail(txs))

RECURSIVE SqlSum(_)
SqlSum(txs) ==
    IF txs = <<>> THEN 0 ELSE Head(txs).quantity + SqlSum(Tail(txs))

\* get_current_holdings(session, user_id): Symbol joined to Transaction,
\* filtered by user, grouped by Symbol.name, summed: {name: net_quantity}.
get_current_holdings(table, user_id) ==
    LET sids == {sid \in SymbolIds :
                    QueryTransactions(table, user_id, sid) # <<>>}
        names == {SymbolName(sid) : sid \in sids}
    IN  [name \in names |->
            SqlSum(QueryTransactions(table, user_id, SymbolByName(name)))]

\* session.add(Transaction(...)); session.commit()
AppendTransaction ==
    /\ Len(transactions) < MaxTx
    /\ \E t \in Transaction : transactions' = Append(transactions, t)
    /\ UNCHANGED <<fxVars, alertVars, dashVars>>

InitLedger == transactions = <<>>

\* ------------------------------------------------ 6. check_and_trigger_alerts
\* A nullable Float column: NULL, or a value.
Null == [set |-> FALSE, v |-> 0]
Value(v) == [set |-> TRUE, v |-> v]
Thresholds == {Null} \cup {Value(v) : v \in 0..MaxRate}
\* A row of the alerts table; id is its position in the table. The
\* recipient (alert.user.email) is left out: nothing modelled reads it.
AlertRow(id) == [id : {id}, symbol_id : SymbolIds, upper_threshold : Thresholds,
                 lower_threshold : Thresholds, active : BOOLEAN]

\* The names check_and_trigger_alerts is called with: the three symbols of
\* the table and one name that has no Symbol row.
CheckedNames == SymbolNames \cup {"MSFT"}
\* The callers pass a price only when it is truthy (`if aapl_price:`).
CheckedPrices == 1..(MaxRate + 1)

\* Python's `x and ...` on a nullable Float: None and 0.0 are both falsy.
ThresholdTruthy(th) == th.set /\ th.v # 0

\* `if alert.upper_threshold and current_price >= alert.upper_threshold`
UpperBreach(alert, current_price) ==
    /\ ThresholdTruthy(alert.upper_threshold)
    /\ current_price >= alert.upper_threshold.v

\* `if alert.lower_threshold and current_price <= alert.lower_threshold`
LowerBreach(alert, current_price) ==
    /\ ThresholdTruthy(alert.lower_threshold)
    /\ current_price <= alert.lower_threshold.v

Trigger(alert, dir, threshold, current_price) ==
    [rule |-> alert.id, dir |-> dir, threshold |-> threshold, price |-> current_price]

\* msg_lines of one pass of the loop over the queried alerts.
msg_lines(alert, current_price) ==
    (IF UpperBreach(alert, current_price)
     THEN <<Trigger(alert, "above", alert.upper_threshold.v, current_price)>>
     ELSE <<>>)
    \o (IF LowerBreach(alert, current_price)
        THEN <<Trigger(alert, "below", alert.lower_threshold.v, current_price)>>
        ELSE <<>>)

\* session.query(Alert).filter(symbol_id == .., active == True).all()
RECURSIVE QueryAlerts(_, _)
QueryAlerts(table, symbol_id) ==
    IF table = <<>> THEN <<>>
    ELSE LET a == Head(table)
             rest == QueryAlerts(Tail(table), symbol_id)
         IN  IF a.symbol_id = symbol_id /\ a.active THEN <<a>> \o rest ELSE rest

\* session.add(Alert(...)); session.commit()
AddAlert ==
    /\ alPc \in {"idle", "done", "raised"}
    /\ Len(alerts) < MaxAlerts
    /\ \E a \in AlertRow(Len(alerts) + 1) : alerts' = Append(alerts, a)
    /\ UNCHANGED <<alPc, alSymbol, alPrice, alQueue, notified, alPrev>>
    /\ UNCHANGED <<fxVars, ledgerVars, dashVars>>

\* Entry of check_and_trigger_alerts(session, symbol_name, current_price):
\* the symbol lookup (return when there is no row) and the alerts query.
\* alPrev remembers the call that just ended when this one has the same
\* symbol, price and rules.
StartCheck ==
    /\ alPc \in {"idle", "done", "raised"}
    /\ \E symbol_name \in CheckedNames, current_price \in CheckedPrices :
         LET sid == SymbolByName(symbol_name)
             same == /\ alPc # "idle"
                     /\ symbol_name = alSymbol
                     /\ current_price = alPrice
                     /\ alPrev.rows = Len(alerts)
         IN  /\ alSymbol' = symbol_name
             /\ alPrice' = current_price
             /\ alQueue' = IF sid = 0 THEN <<>> ELSE QueryAlerts(alerts, sid)
             /\ alPc' = IF sid = 0 THEN "done" ELSE "loop"
             /\ notified' = <<>>
             /\ alPrev' = [same |-> same,
                           notified |-> IF same THEN notified ELSE <<>>,
                           rows |-> Len(alerts)]
    /\ UNCHANGED alerts
    /\ UNCHANGED <<fxVars, ledgerVars, dashVars>>

\* One pass of `for alert in alerts:`; when triggered the message is handed
\* to send_email_alert, which returns (delivered) or raises out of the
\* loop: smtplib raises on a refused connection, a failed login or a
\* rejected recipient, and nothing here catches it.
EvalAlert ==
    /\ alPc = "loop"
    /\ alQueue # <<>>
    /\ LET alert == Head(alQueue)
           lines == msg_lines(alert, alPrice)
       IN  IF lines = <<>>
           THEN /\ alQueue' = Tail(alQueue)
                /\ UNCHANGED <<alPc, notified>>
           ELSE /\ notified' = Append(notified, lines)
                /\ \E delivered \in BOOLEAN :
                     IF delivered
                     THEN alQueue' = Tail(alQueue) /\ alPc' = "loop"
                     ELSE alQueue' = alQueue /\ alPc' = "raised"
    /\ UNCHANGED <<alerts, alSymbol, alPrice, alPrev>>
    /\ UNCHANGED <<fxVars, ledgerVars, dashVars>>

\* The loop is exhausted: the function returns.
FinishCheck ==
    /\ alPc = "loop"
    /\ alQueue = <<>>
    /\ alPc' = "done"
    /\ UNCHANGED <<alerts, alSymbol, alPrice, alQueue, notified, alPrev>>
    /\ UNCHANGED <<fxVars, ledgerVars, dashVars>>

InitAlerts ==
    /\ alerts = <<>>
    /\ alPc = "idle"
    /\ alSymbol = "AAPL"
    /\ alPrice = 1
    /\ alQueue = <<>>
    /\ notified = <<>>
    /\ alPrev = [same |-> FALSE, notified |-> <<>>, rows |-> 0]

\* -------------------------------------------- 4. stock and crypto prices
\* What yf.download(...) can do: raise, return an empty frame, or return a
\* frame whose last Close is a positive number.
StockResponses ==
    {[status |-> s, close |-> 0] : s \in {"error", "empty"}}
    \cup {[status |-> "ok", close |-> n] : n \in 1..MaxRate}

\* fetch_stock_price(symbol)
fetch_stock_price(resp) ==
    IF resp.status = "ok" THEN PyNum(RInt(resp.close)) ELSE PyNone

\* What requests.get(url, params).json() can deliver from CoinGecko: a
\* failure, or JSON whose data[coin_id]["usd"] is absent or some JSON value.
CryptoResponses ==
    {[status |-> s, usd |-> JAbsent] : s \in {"transport_error", "not_json"}}
    \cup {[status |-> "ok", usd |-> v] : v \in JValues}

\* fetch_crypto_price(coin_id): data[coin_id]["usd"], None on any exception.
fetch_crypto_price(resp) ==
    IF resp.status # "ok" \/ resp.usd = JAbsent THEN PyNone ELSE FromJson(resp.usd)

\* ------------------------------------------------ dashboard.py pricing loop
RECURSIVE Pow10(_)
Pow10(n) == IF n = 0 THEN 1 ELSE 10 * Pow10(n - 1)

\* round(x, ndigits): to the nearest multiple of 10^-ndigits, ties to even.
Round(x, ndigits) ==
    LET scale == Pow10(ndigits)
        n == x.num * scale
        q == n \div x.den
        r == n % x.den
        up == \/ 2 * r > x.den
              \/ 2 * r = x.den /\ q % 2 = 1
    IN  Rat(IF up THEN q + 1 ELSE q, scale)

\* The order in which the grouped query lists the names (by name, binary
\* collation).
HoldingsOrder == <<"AAPL", "USD_EUR", "bitcoin">>

\* holdings.items() as a list of (sym_name, quantity).
RECURSIVE Items(_, _)
Items(holdings, order) ==
    IF order = <<>> THEN <<>>
    ELSE (IF Head(order) \in DOMAIN holdings
          THEN <<[sym_name |-> Head(order), quantity |-> holdings[Head(order)]]>>
          ELSE <<>>)
         \o Items(holdings, Tail(order))

\* The test `if current_price:` guarding rows.append.
PriceResolved(current_price) == Truthy(current_price)

\* The dict appended to rows for one symbol.
Row(item, avg_cost, current_price) ==
    [Symbol |-> item.sym_name,
     Quantity |-> item.quantity,
     AvgCost |-> Round(avg_cost, 2),
     CurrentPrice |-> Round(current_price, 4),
     MarketValue |-> Round(RMul(RInt(item.quantity), current_price), 2)]

\* The tail of one pass of the loop, once current_price is known:
\*   if current_price: rows.append({...})
\* round(current_price, 4) raises TypeError on a string.
AfterPrice(current_price) ==
    LET item == Head(dashItems)
        symbol_obj == SymbolByName(item.sym_name)
        avg_cost == calculate_average_cost_basis(transactions, dashUser, symbol_obj)
    IN  /\ dashCur' = [sym_name |-> item.sym_name, current_price |-> current_price]
        /\ IF ~PriceResolved(current_price)
           THEN /\ dashItems' = Tail(dashItems)
                /\ dashPc' = "loop"
                /\ UNCHANGED rows
           ELSE IF current_price.kind = "str"
           THEN /\ dashPc' = "raised"
                /\ UNCHANGED <<dashItems, rows>>
           ELSE /\ rows' = Append(rows, Row(item, avg_cost, current_price.val))
                /\ dashItems' = Tail(dashItems)
                /\ dashPc' = "loop"

\* Before the first pass of the loop.
NoPass == [sym_name |-> "-", current_price |-> PyNone]

\* The script runs for a selected user: holdings are read and the loop
\* over holdings.items() begins with rows = [].
DashStart ==
    /\ dashPc \in {"idle", "done", "raised"}
    /\ fxPc \in {"idle", "done", "raised"}
    /\ \E user_id \in UserIds :
         /\ dashUser' = user_id
         /\ dashItems' = Items(get_current_holdings(transactions, user_id),
                               HoldingsOrder)
    /\ rows' = <<>>
    /\ dashCur' = NoPass
    /\ dashPc' = "loop"
    /\ UNCHANGED <<fxVars, ledgerVars, alertVars>>

\* `if quantity == 0: continue`
DashSkipZero ==
    /\ dashPc = "loop"
    /\ dashItems # <<>>
    /\ Head(dashItems).quantity = 0
    /\ dashItems' = Tail(dashItems)
    /\ UNCHANGED <<dashPc, dashUser, dashCur, rows>>
    /\ UNCHANGED <<fxVars, ledgerVars, alertVars>>

\* symbol_type == "stock": current_price = fetch_stock_price(sym_name)
DashPriceStock ==
    /\ dashPc = "loop"
    /\ dashItems # <<>>
    /\ Head(dashItems).quantity # 0
    /\ symbol_type(SymbolByName(Head(dashItems).sym_name)) = "stock"
    /\ \E resp \in StockResponses : AfterPrice(fetch_stock_price(resp))
    /\ UNCHANGED dashUser
    /\ UNCHANGED <<fxVars, ledgerVars, alertVars>>

\* symbol_type == "crypto": current_price = fetch_crypto_price(sym_name)
DashPriceCrypto ==
    /\ dashPc = "loop"
    /\ dashItems # <<>>
    /\ Head(dashItems).quantity # 0
    /\ symbol_type(SymbolByName(Head(dashItems).sym_name)) = "crypto"
    /\ \E resp \in CryptoResponses : AfterPrice(fetch_crypto_price(resp))
    /\ UNCHANGED dashUser
    /\ UNCHANGED <<fxVars, ledgerVars, alertVars>>

\* symbol_type == "forex": base, target = sym_name.split("_") and the call
\* of get_advanced_forex_rate(base, target).
DashCallForex ==
    /\ dashPc = "loop"
    /\ dashItems # <<>>
    /\ Head(dashItems).quantity # 0
    /\ symbol_type(SymbolByName(Head(dashItems).sym_name)) = "forex"
    /\ EnterAggregate("USD", "EUR")
    /\ dashPc' = "forex"
    /\ UNCHANGED <<dashUser, dashItems, dashCur, rows>>
    /\ UNCHANGED <<ledgerVars, alertVars>>

\* The call frame of get_advanced_forex_rate is gone once it has returned
\* or raised.
LeaveAggregate ==
    /\ fxPc' = "idle"
    /\ fxBase' = "USD"
    /\ fxTarget' = "EUR"
    /\ fxIdx' = 1
    /\ fxHung' = FALSE
    /\ total_weighted_rate' = RZero
    /\ total_weight' = RZero
    /\ fxRates' = <<>>
    /\ fxResult' = PyNone
    /\ fxLegs' = NoLegs

\* get_advanced_forex_rate returned: the rest of the pass.
DashForexReturn ==
    /\ dashPc = "forex"
    /\ fxPc = "done"
    /\ AfterPrice(fxResult)
    /\ LeaveAggregate
    /\ UNCHANGED dashUser
    /\ UNCHANGED <<ledgerVars, alertVars>>

\* get_advanced_forex_rate raised: the exception leaves the loop and the
\* script; no rows are displayed.
DashForexRaise ==
    /\ dashPc = "forex"
    /\ fxPc = "raised"
    /\ dashPc' = "raised"
    /\ LeaveAggregate
    /\ UNCHANGED <<dashUser, dashItems, dashCur, rows>>
    /\ UNCHANGED <<ledgerVars, alertVars>>

\* The loop is exhausted: `if rows: st.dataframe(cost_df)`.
DashFinish ==
    /\ dashPc = "loop"
    /\ dashItems = <<>>
    /\ dashPc' = "done"
    /\ UNCHANGED <<dashUser, dashItems, dashCur, rows>>
    /\ UNCHANGED <<fxVars, ledgerVars, alertVars>>

InitDash ==
    /\ dashPc = "idle"
    /\ dashUser = 1
    /\ dashItems = <<>>
    /\ dashCur = NoPass
    /\ rows = <<>>

\* ---------------------------------------------------------- specifications
Init == InitFx /\ InitLedger /\ InitAlerts /\ InitDash

Next ==
    \/ StartAggregate \/ SendRequest \/ ReceiveResponse \/ FinishAggregate
    \/ AppendTransaction
    \/ AddAlert \/ StartCheck \/ EvalAlert \/ FinishCheck
    \/ DashStart \/ DashSkipZero \/ DashPriceStock \/ DashPriceCrypto
    \/ DashCallForex \/ DashForexReturn \/ DashForexRaise \/ DashFinish

\* The whole program.
Spec == Init /\ [][Next]_vars

\* The forex aggregator called directly (main's call), other parts at rest.
NextFx == StartAggregate \/ SendRequest \/ ReceiveResponse \/ FinishAggregate
SpecFx == Init /\ [][NextFx]_vars

\* The same, with the scheduling the interpreter guarantees: a running call
\* takes its next step whenever it can (a request that can return does, the
\* loop and the return statement run). Nothing obliges a caller to call.
FairSpecFx ==
    /\ Init
    /\ [][NextFx]_vars
    /\ WF_vars(SendRequest)
    /\ WF_vars(ReceiveResponse)
    /\ WF_vars(FinishAggregate)

\* The ledger alone.
NextLedger == AppendTransaction
SpecLedger == Init /\ [][NextLedger]_vars

\* The alerts table and check_and_trigger_alerts.
NextAlerts == AddAlert \/ StartCheck \/ EvalAlert \/ FinishCheck
SpecAlerts == Init /\ [][NextAlerts]_vars

\* The dashboard script over a ledger recorded earlier: any ledger of up to
\* MaxTx rows of unit quantity (a buy, a sell, or zero).
DashLedgers ==
    UNION {[1..k -> {t \in Transaction : t.quantity \in {-1, 0, 1}}] : k \in 0..MaxTx}
InitDashboard ==
    /\ InitFx /\ InitAlerts /\ InitDash
    /\ transactions \in DashLedgers
NextDashboard ==
    \/ DashStart \/ DashSkipZero \/ DashPriceStock \/ DashPriceCrypto
    \/ DashCallForex \/ DashForexReturn \/ DashForexRaise \/ DashFinish
    \/ SendRequest \/ ReceiveResponse \/ FinishAggregate
SpecDashboard == InitDashboard /\ [][NextDashboard]_vars

\* ------------------------------------------------------------------ claims
\* Sums over a set of row numbers of a table, taken in no particular order.
RECURSIVE SumQuantity(_, _)
SumQuantity(table, idx) ==
    IF idx = {} THEN 0
    ELSE LET i == CHOOSE j \in idx : TRUE
         IN  table[i].quantity + SumQuantity(table, idx \ {i})

RECURSIVE SumCost(_, _)
SumCost(table, idx) ==
    IF idx = {} THEN 0
    ELSE LET i == CHOOSE j \in idx : TRUE
         IN  table[i].quantity * table[i].price + SumCost(table, idx \ {i})

\* The rows of (user, symbol), and those of them that are acquisitions.
RowsOf(table, u, s) ==
    {i \in 1..Len(table) : table[i].user_id = u /\ table[i].symbol_id = s}
BuysOf(table, u, s) == {i \in RowsOf(table, u, s) : table[i].quantity > 0}

\* The table with rows i and i+1 exchanged.
SwapRows(table, i) ==
    [k \in 1..Len(table) |->
        IF k = i THEN table[i + 1] ELSE IF k = i + 1 THEN table[i] ELSE table[k]]

\* C3: for every (user, symbol) the average cost basis is
\* sum(quantity*price) / sum(quantity) over the rows with quantity > 0, and
\* 0 when there is no such row; exchanging two neighbouring rows of the
\* pair (hence any reordering of its ledger) and appending any disposal
\* (quantity < 0) to its ledger leave it unchanged.
C3_AverageCostBasis ==
    /\ \A u \in UserIds, s \in SymbolIds :
          LET buys == BuysOf(transactions, u, s)
              basis == calculate_average_cost_basis(transactions, u, s)
          IN  /\ buys = {} => basis = RZero
              /\ buys # {} =>
                    basis.num * SumQuantity(transactions, buys)
                       = SumCost(transactions, buys) * basis.den
    /\ \A i \in 1..Len(transactions) :
          LET u == transactions[i].user_id
              s == transactions[i].symbol_id
              basis == calculate_average_cost_basis(transactions, u, s)
          IN  /\ (/\ i < Len(transactions)
                  /\ transactions[i + 1].user_id = u
                  /\ transactions[i + 1].symbol_id = s)
                    => calculate_average_cost_basis(SwapRows(transactions, i), u, s)
                          = basis
              /\ \A q \in {x \in TxQuantities : x < 0}, p \in TxPrices :
                    calculate_average_cost_basis(
                       Append(transactions,
                              [user_id |-> u, symbol_id |-> s,
                               quantity |-> q, price |-> p]), u, s) = basis

\* C3's case: a ledger of one pair holding an acquisition and a disposal.
C3_Witness ==
    \E u \in UserIds, s \in SymbolIds :
        /\ BuysOf(transactions, u, s) # {}
        /\ RowsOf(transactions, u, s) \ BuysOf(transactions, u, s) # {}
        /\ calculate_average_cost_basis(transactions, u, s) # RZero

\* C4: for every user, get_current_holdings has exactly the names of the
\* symbols the user has a transaction of, each mapped to the signed sum of
\* all of the user's quantities for it (a net of 0 included), and exchanging
\* two neighbouring rows of the user (hence any reordering) leaves it
\* unchanged.
C4_CurrentHoldings ==
    /\ \A u \in UserIds :
          LET holdings == get_current_holdings(transactions, u)
          IN  /\ DOMAIN holdings =
                    {SymbolName(s) :
                        s \in {x \in SymbolIds : RowsOf(transactions, u, x) # {}}}
              /\ \A s \in SymbolIds :
                    RowsOf(transactions, u, s) # {} =>
                       holdings[SymbolName(s)]
                          = SumQuantity(transactions, RowsOf(transactions, u, s))
    /\ \A i \in 1..(Len(transactions) - 1) :
          transactions[i + 1].user_id = transactions[i].user_id =>
             get_current_holdings(SwapRows(transactions, i), transactions[i].user_id)
                = get_current_holdings(transactions, transactions[i].user_id)

\* C4's case: a user with a buy and a sell of one symbol netting exactly 0,
\* the symbol still listed.
C4_Witness ==
    \E u \in UserIds, s \in SymbolIds :
        /\ \E i, j \in RowsOf(transactions, u, s) :
              transactions[i].quantity > 0 /\ transactions[j].quantity < 0
        /\ SymbolName(s) \in DOMAIN get_current_holdings(transactions, u)
        /\ get_current_holdings(transactions, u)[SymbolName(s)] = 0

\* Sums over a set of provider positions, taken in no particular order.
RECURSIVE SumWeights(_)
SumWeights(idx) ==
    IF idx = {} THEN RZero
    ELSE LET i == CHOOSE j \in idx : TRUE
         IN  RAdd(PROVIDER_CONFIG(Providers[i]), SumWeights(idx \ {i}))

RECURSIVE SumWeightedRates(_, _)
SumWeightedRates(rates, idx) ==
    IF idx = {} THEN RZero
    ELSE LET i == CHOOSE j \in idx : TRUE
         IN  RAdd(RMul(rates[i].val, PROVIDER_CONFIG(Providers[i])),
                  SumWeightedRates(rates, idx \ {i}))

\* The providers of this call whose fetch returned a rate.
Quoted == {i \in 1..Len(fxRates) : fxRates[i].kind = "num"}

C1_WitnessAllFail == fxPc = "done" /\ Len(fxRates) = NumProviders /\ Quoted = {}

\* C2: a provider's failed fetch (transport error, malformed response,
\* missing rate) never aborts the aggregation: the call does not raise, and
\* when it returns every provider has been asked and a provider that did
\* not deliver a number has contributed nothing.
C2_FailureContained ==
    /\ fxPc # "raised"
    /\ fxPc = "done" =>
          /\ Len(fxRates) = NumProviders
          /\ RMul(fxResult.val, SumWeights(Quoted)) = SumWeightedRates(fxRates, Quoted)

\* C8: every call of the aggregator that has started eventually completes
\* (returns or raises), whatever the providers do.
C8_AggregateCompletes ==
    (fxPc \in {"loop", "waiting"}) ~> (fxPc \in {"done", "raised"})

\* The triggers handed to the notifier in the current call, as a set.
Emitted ==
    UNION {{notified[k][n] : n \in 1..Len(notified[k])} : k \in 1..Len(notified)}

\* The rules on the symbol of the current call, as the table stood when the
\* call began.
RulesOnSymbol ==
    {alerts[k] : k \in {n \in 1..alPrev.rows :
                           alerts[n].symbol_id = SymbolByName(alSymbol)}}

\* C5: when an evaluation has returned, for every rule on the symbol an
\* upper-breach trigger was emitted exactly when the rule is active, its
\* upper threshold is set and price >= upper; a lower-breach trigger exactly
\* when it is active, its lower threshold is set and price <= lower.
C5_ThresholdTriggers ==
    alPc = "done" =>
       \A a \in RulesOnSymbol :
          /\ Trigger(a, "above", a.upper_threshold.v, alPrice) \in Emitted
                <=> (a.active /\ a.upper_threshold.set
                     /\ alPrice >= a.upper_threshold.v)
          /\ Trigger(a, "below", a.lower_threshold.v, alPrice) \in Emitted
                <=> (a.active /\ a.lower_threshold.set
                     /\ alPrice <= a.lower_threshold.v)

\* C6: a failed delivery never aborts the evaluation: the call does not
\* raise, and when it has returned every active rule of the symbol whose
\* condition holds has had its message handed to the notifier.
C6_NotifierFailureContained ==
    /\ alPc # "raised"
    /\ alPc = "done" =>
          \A a \in RulesOnSymbol :
             (a.active /\ msg_lines(a, alPrice) # <<>>) =>
                \E k \in 1..Len(notified) : notified[k] = msg_lines(a, alPrice)

\* C9: a call that ended after an earlier call with the same symbol, price
\* and rules has handed over the identical list of triggers.
C9_SameTriggersAgain ==
    (alPc \in {"done", "raised"} /\ alPrev.same) => notified = alPrev.notified

\* C10: when an evaluation has returned, every active rule on the symbol
\* with lower > upper and upper <= price <= lower has emitted both an
\* upper-breach and a lower-breach trigger.
C10_DoubleTrigger ==
    alPc = "done" =>
       \A a \in RulesOnSymbol :
          (/\ a.active
           /\ a.upper_threshold.set
           /\ a.lower_threshold.set
           /\ a.lower_threshold.v > a.upper_threshold.v
           /\ a.upper_threshold.v <= alPrice
           /\ alPrice <= a.lower_threshold.v)
             => /\ Trigger(a, "above", a.upper_threshold.v, alPrice) \in Emitted
                /\ Trigger(a, "below", a.lower_threshold.v, alPrice) \in Emitted

\* C7: the portfolio computation never aborts, and after each pass of the
\* loop over the held symbols with nonzero quantity a row for the symbol
\* has been appended exactly when its price resolution succeeded (the price
\* source returned a price rather than None).
C7_PricedRows ==
    /\ dashPc # "raised"
    /\ dashCur # NoPass =>
          (dashCur.current_price.kind # "none"
             <=> (rows # <<>> /\ rows[Len(rows)].Symbol = dashCur.sym_name))

\* A leg of the response the indirect branch worked on: the key c is in its
\* rates table.
LegPresent(c) == fxLegs.status = "ok" /\ fxLegs.rates[c] # JAbsent

\* The other providers of this call whose fetch returned a rate.
QuotedDirect == Quoted \ {NumProviders}

\* C11: once OPEN_EXCHANGE_RATES has answered a call whose base is not USD,
\* the value its fetch returned is a rate or None; it is a rate only when
\* both the base leg and the target leg are in the response, and then it
\* equals rates[target]/rates[base]; when either leg is missing (or there
\* is no rates table at all) it is None, and the totals, and the result
\* when the call returns, are those of the other providers alone.
C11_IndirectQuote ==
    fxLegs # NoLegs =>
        LET rate == fxRates[NumProviders]
            bothLegs == LegPresent(fxBase) /\ LegPresent(fxTarget)
        IN  /\ fxBase # "USD"
            /\ Len(fxRates) = NumProviders
            /\ rate.kind \in {"num", "none"}
            /\ rate.kind = "num" =>
                  /\ bothLegs
                  /\ fxLegs.rates[fxBase].j = "number"
                  /\ fxLegs.rates[fxTarget].j = "number"
                  /\ RMul(rate.val, RInt(fxLegs.rates[fxBase].n))
                        = RInt(fxLegs.rates[fxTarget].n)
            /\ ~bothLegs =>
                  /\ rate = PyNone
                  /\ total_weight = SumWeights(QuotedDirect)
                  /\ total_weighted_rate = SumWeightedRates(fxRates, QuotedDirect)
                  /\ fxPc = "done" =>
                        fxResult = WeightedAverage(SumWeightedRates(fxRates, QuotedDirect),
                                                   SumWeights(QuotedDirect))

\* C11's case: a call for a non-USD base returned; OPEN_EXCHANGE_RATES
\* answered with a table that quotes the target but not the base, and
\* abstained; the result is the average of the two other providers.
C11_Witness ==
    /\ fxPc = "done"
    /\ fxLegs # NoLegs
    /\ fxLegs.status = "ok"
    /\ fxLegs.rates[fxBase] = JAbsent
    /\ fxLegs.rates[fxTarget].j = "number"
    /\ fxLegs.rates[fxTarget].n > 0
    /\ fxRates[NumProviders] = PyNone
    /\ Cardinality(Quoted) = 2
    /\ fxResult.kind = "num"

\* C11's other case: both legs are present and the indirect quote, a rate
\* that is no whole number, enters the average with the two direct quotes.
C11_WitnessQuote ==
    /\ fxPc = "done"
    /\ fxLegs # NoLegs
    /\ LegPresent(fxBase) /\ LegPresent(fxTarget)
    /\ fxRates[NumProviders] = PyNum(Rat(1, 2))
    /\ Cardinality(Quoted) = 3
====
